---- MODULE Spec2Model ----
(***************************************************************************)
(* Rules engine of the Buffalo board game (src/src/buffalo/board.py) and   *)
(* the game loop around it (src/src/buffalo/game.py).                      *)
(* The state is one Board object: its `pieces` dict (kept in insertion     *)
(* order, as a Python dict is), `current_player` and `move_number`; plus   *)
(* `game`, the Game object that owns the board (None where the board is    *)
(* used on its own); plus `last`, the call most recently made with its     *)
(* arguments and what it returned or raised; plus what the caller holds:   *)
(* `mapping`, the dict handed to Board.from_pieces, and `held`, the first  *)
(* MoveRecord that move_piece returned. compute_reward of                  *)
(* src/src/buffalo/dqn.py is modelled at the end of the game section.      *)
(***************************************************************************)
EXTENDS Integers, Sequences, FiniteSets

VARIABLES pieces, current_player, move_number, last, game, mapping, held

vars == <<pieces, current_player, move_number, last, game, mapping, held>>

(***************************************************************************)
(* Enumerations and class attributes of board.py                           *)
(***************************************************************************)
Player_BUFFALO == "BUFFALO"
Player_HUNTERS == "HUNTERS"
Player == {Player_BUFFALO, Player_HUNTERS}

PieceType_BUFFALO == "B"
PieceType_DOG == "D"
PieceType_CHIEF == "C"
PieceType == {PieceType_BUFFALO, PieceType_DOG, PieceType_CHIEF}

BUFFALO_CROSSED == "buffalo_crossed"
BUFFALO_STUCK == "buffalo_stuck"
BUFFALO_EXTINCT == "buffalo_extinct"
GameOverReason == {BUFFALO_CROSSED, BUFFALO_STUCK, BUFFALO_EXTINCT}

\* Python's None, for an absent player, piece type, reason or error.
None == "None"

width == 11
height == 7
INITIAL_DOG_FILES == <<3, 4, 6, 7>>
INITIAL_KING_FILE == 5

Piece(type, player) == [type |-> type, player |-> player]
\* What get_piece_at returns for an empty square (None in the source).
NoPiece == [type |-> None, player |-> None]
Position(x, y) == <<x, y>>
Move(player, piece, start, end) ==
    [player |-> player, piece |-> piece, start |-> start, end |-> end]

\* One item of the `pieces` dict: key (x, y) and value Piece.
Item(pos, piece) == [pos |-> pos, piece |-> piece]

(***************************************************************************)
(* Bounds of the model                                                     *)
(***************************************************************************)
\* Most pieces in a mapping handed to from_pieces.
MaxPieces == 2
\* Most successful moves applied to one board.
MaxMoves == 2
\* Longest step, per axis, of a move_piece call tried by the model.
MaxStep == 1
MaxTokens == 2

\* Squares a from_pieces mapping may occupy, in the order the mapping lists
\* them: the top two and the bottom two rows of the last file, and the
\* neighbour of its last-but-one row.
PlaceSeq == << <<10, 0>>, <<10, 1>>, <<9, 5>>, <<10, 5>>, <<10, 6>> >>
PlaceSquares == {PlaceSeq[i] : i \in DOMAIN PlaceSeq}
\* Squares move_piece calls start from: those, and on the initial board a
\* second Buffalo and a Dog.
FromSquares == PlaceSquares \cup {<<9, 0>>, <<7, 5>>}

(***************************************************************************)
(* Board.get_piece_at and helpers on the dict                              *)
(***************************************************************************)
Keys(ps) == {ps[i].pos : i \in DOMAIN ps}

get_piece_at(ps, x, y) ==
    IF <<x, y>> \in Keys(ps)
    THEN ps[CHOOSE i \in DOMAIN ps : ps[i].pos = <<x, y>>].piece
    ELSE NoPiece

\* self.pieces[pos] = piece: an existing key keeps its place, a new key goes last.
DictSet(ps, pos, piece) ==
    IF pos \in Keys(ps)
    THEN [i \in DOMAIN ps |-> IF ps[i].pos = pos THEN Item(pos, piece) ELSE ps[i]]
    ELSE Append(ps, Item(pos, piece))

\* Mutant of DictDel: the start square is not deleted.
DictDel_forgotten(ps, pos) == ps

\* del self.pieces[pos]
DictDel(ps, pos) == SelectSeq(ps, LAMBDA it : it.pos # pos)

switch_player_stays(cur) == cur

switch_player(cur) ==
    IF cur = Player_BUFFALO THEN Player_HUNTERS ELSE Player_BUFFALO

is_destination_inside_board(x, y) ==
    0 <= x /\ x < width /\ 0 <= y /\ y < height

Abs(n) == IF n < 0 THEN -n ELSE n

Range(seq) == {seq[i] : i \in DOMAIN seq}

(***************************************************************************)
(* Board._is_valid_move                                                    *)
(***************************************************************************)
\* The assertion that opens _is_valid_move.
assert_current_player(piece, cur) == piece.player = cur

\* Mutant of buffalo_branch: the destination need not be empty.
buffalo_branch_captures(ps, from_x, from_y, to_x, to_y) ==
    (to_y = from_y + 1) /\ (from_x = to_x)

\* Mutant of buffalo_branch: any number of rows forward.
buffalo_branch_far(ps, from_x, from_y, to_x, to_y) ==
    /\ (to_y >= from_y + 1) /\ (from_x = to_x)
    /\ get_piece_at(ps, to_x, to_y) = NoPiece

\* Mutant of buffalo_branch: one square sideways in the same row.
buffalo_branch_sideways(ps, from_x, from_y, to_x, to_y) ==
    /\ (to_y = from_y) /\ (Abs(to_x - from_x) = 1)
    /\ get_piece_at(ps, to_x, to_y) = NoPiece

\* Mutant of buffalo_branch: one row forward into a neighbouring column.
buffalo_branch_diagonal(ps, from_x, from_y, to_x, to_y) ==
    /\ (to_y = from_y + 1) /\ (Abs(to_x - from_x) <= 1)
    /\ get_piece_at(ps, to_x, to_y) = NoPiece

\* Branch `piece.type == PieceType.BUFFALO`.
buffalo_branch(ps, from_x, from_y, to_x, to_y) ==
    LET is_destination_empty == get_piece_at(ps, to_x, to_y) = NoPiece
        is_one_move_down == (to_y = from_y + 1) /\ (from_x = to_x)
    IN  is_one_move_down /\ is_destination_empty

\* Mutant of chief_branch: the bottom row is not excluded.
chief_branch_bottom_row(ps, piece, from_x, from_y, to_x, to_y) ==
    LET piece_at_destination == get_piece_at(ps, to_x, to_y)
    IN  /\ Abs(to_x - from_x) <= 1 /\ Abs(to_y - from_y) <= 1
        /\ to_y # 0
        /\ \/ piece_at_destination = NoPiece
           \/ piece_at_destination.player # piece.player

\* Branch `piece.type == PieceType.CHIEF`.
chief_branch(ps, piece, from_x, from_y, to_x, to_y) ==
    LET piece_at_destination == get_piece_at(ps, to_x, to_y)
        is_destination_empty == piece_at_destination = NoPiece
        destination_not_on_bottom_row == to_y # height - 1
        destination_not_on_top_row == to_y # 0
        delta_x == Abs(to_x - from_x)
        delta_y == Abs(to_y - from_y)
        is_kinglike_move == delta_x <= 1 /\ delta_y <= 1
    IN  IF ~is_kinglike_move THEN FALSE
        ELSE IF ~destination_not_on_bottom_row THEN FALSE
        ELSE IF ~destination_not_on_top_row THEN FALSE
        ELSE IF is_destination_empty THEN TRUE
        ELSE IF piece_at_destination.player # piece.player THEN TRUE
        ELSE FALSE

\* The while loop of the Dog branch: walk from the square after the start
\* towards the destination, stopping at the first occupied square.
RECURSIVE no_pieces_between(_, _, _, _, _, _, _)
no_pieces_between(ps, curr_x, curr_y, to_x, to_y, step_x, step_y) ==
    IF <<curr_x, curr_y>> = <<to_x, to_y>> THEN TRUE
    ELSE IF get_piece_at(ps, curr_x, curr_y) # NoPiece THEN FALSE
    ELSE no_pieces_between(ps, curr_x + step_x, curr_y + step_y,
                           to_x, to_y, step_x, step_y)

\* Mutant of dog_branch: the squares between are not looked at.
dog_branch_jumps(ps, from_x, from_y, to_x, to_y) ==
    /\ get_piece_at(ps, to_x, to_y) = NoPiece
    /\ to_y # 0
    /\ to_y # height - 1
    /\ \/ Abs(to_x - from_x) = Abs(to_y - from_y)
       \/ to_x = from_x
       \/ to_y = from_y

\* Mutant of dog_branch: a Dog one square away may take a Buffalo.
dog_branch_captures(ps, from_x, from_y, to_x, to_y) ==
    /\ to_y # 0
    /\ to_y # height - 1
    /\ Abs(to_x - from_x) <= 1 /\ Abs(to_y - from_y) <= 1
    /\ get_piece_at(ps, to_x, to_y).player # Player_HUNTERS

\* Mutant of dog_branch: the top and bottom rows are not excluded.
dog_branch_any_row(ps, from_x, from_y, to_x, to_y) ==
    /\ get_piece_at(ps, to_x, to_y) = NoPiece
    /\ Abs(to_x - from_x) <= 1 /\ Abs(to_y - from_y) <= 1

\* Branch `piece.type == PieceType.DOG`.
dog_branch(ps, from_x, from_y, to_x, to_y) ==
    LET is_destination_empty == get_piece_at(ps, to_x, to_y) = NoPiece
        destination_not_on_bottom_row == to_y # height - 1
        destination_not_on_top_row == to_y # 0
        delta_x == Abs(to_x - from_x)
        delta_y == Abs(to_y - from_y)
        is_queen_like_move ==
            (delta_x = delta_y) \/ (to_x = from_x) \/ (to_y = from_y)
        step_x == IF to_x > from_x THEN 1 ELSE IF to_x < from_x THEN -1 ELSE 0
        step_y == IF to_y > from_y THEN 1 ELSE IF to_y < from_y THEN -1 ELSE 0
    IN  IF ~is_destination_empty THEN FALSE
        ELSE IF ~destination_not_on_top_row THEN FALSE
        ELSE IF ~destination_not_on_bottom_row THEN FALSE
        ELSE IF ~is_queen_like_move THEN FALSE
        ELSE no_pieces_between(ps, from_x + step_x, from_y + step_y,
                               to_x, to_y, step_x, step_y)

\* Mutant of is_valid_move: the Chief and Dog branches are missing.
is_valid_move_buffalo_only(ps, piece, from_x, from_y, to_x, to_y) ==
    IF ~is_destination_inside_board(to_x, to_y) THEN FALSE
    ELSE IF from_x = to_x /\ from_y = to_y THEN FALSE
    ELSE IF piece.type = PieceType_BUFFALO
         THEN buffalo_branch(ps, from_x, from_y, to_x, to_y)
    ELSE FALSE

\* The predicate proper, for a piece that passed the assertion.
is_valid_move(ps, piece, from_x, from_y, to_x, to_y) ==
    IF ~is_destination_inside_board(to_x, to_y) THEN FALSE
    ELSE IF from_x = to_x /\ from_y = to_y THEN FALSE
    ELSE IF piece.type = PieceType_BUFFALO
         THEN buffalo_branch(ps, from_x, from_y, to_x, to_y)
    ELSE IF piece.type = PieceType_CHIEF
         THEN chief_branch(ps, piece, from_x, from_y, to_x, to_y)
    ELSE IF piece.type = PieceType_DOG
         THEN dog_branch(ps, from_x, from_y, to_x, to_y)
    ELSE FALSE

(***************************************************************************)
(* Board.legal_moves                                                       *)
(***************************************************************************)
\* Mutant of Destinations: the to_x loop stops one file early.
Destinations_short ==
    [k \in 1..((width - 1) * height) |-> <<(k - 1) \div height, (k - 1) % height>>]

\* The destinations in loop order: to_x outermost, to_y innermost.
Destinations ==
    [k \in 1..(width * height) |-> <<(k - 1) \div height, (k - 1) % height>>]

\* The two inner loops for one item of the dict.
moves_of_item(ps, cur, it) ==
    LET candidates ==
            [k \in DOMAIN Destinations |->
                Move(cur, it.piece, it.pos, Destinations[k])]
    IN  SelectSeq(candidates,
            LAMBDA m : is_valid_move(ps, m.piece, m.start[1], m.start[2],
                                     m.end[1], m.end[2]))

\* The outer loop over self.pieces.items(), from item k on.
RECURSIVE legal_moves_from(_, _, _)
legal_moves_from(ps, cur, k) ==
    IF k > Len(ps) THEN << >>
    ELSE IF ps[k].piece.player # cur THEN legal_moves_from(ps, cur, k + 1)
    ELSE moves_of_item(ps, cur, ps[k]) \o legal_moves_from(ps, cur, k + 1)

\* Mutant of legal_moves_probes: the `continue` is missing.
legal_moves_probes_all(ps, cur) == ps

\* The items of the dict that get past `if piece.player != self.current_player:
\* continue`, and so are handed to _is_valid_move.
legal_moves_probes(ps, cur) ==
    SelectSeq(ps, LAMBDA it : it.piece.player = cur)

\* The exception legal_moves() ends with: the assertion of _is_valid_move
\* fails on the first probed piece that is not the mover's.
legal_moves_error(ps, cur) ==
    IF \E i \in DOMAIN legal_moves_probes(ps, cur) :
            ~assert_current_player(legal_moves_probes(ps, cur)[i].piece, cur)
    THEN "AssertionError" ELSE None

legal_moves_last_item(ps, cur) ==
    IF ps = << >> THEN << >> ELSE legal_moves_from(ps, cur, Len(ps))

legal_moves(ps, cur) == legal_moves_from(ps, cur, 1)

(***************************************************************************)
(* Board.check_for_winner                                                  *)
(***************************************************************************)
any_buffalo_on_bottom_row(ps) ==
    \E x \in 0..(width - 1) :
        LET piece == get_piece_at(ps, x, height - 1)
        IN  piece # NoPiece /\ piece.type = PieceType_BUFFALO

\* Mutant of any_buffalo_remaining: any piece counts.
any_piece_remaining(ps) == ps # << >>

any_buffalo_remaining(ps) ==
    \E i \in DOMAIN ps : ps[i].piece.type = PieceType_BUFFALO

\* Mutant of check_for_winner: the stuck rule is tried before the crossing.
check_for_winner_stuck_first(ps, cur) ==
    IF cur = Player_BUFFALO /\ legal_moves(ps, cur) = << >>
    THEN <<Player_HUNTERS, BUFFALO_STUCK>>
    ELSE IF any_buffalo_on_bottom_row(ps)
    THEN <<Player_BUFFALO, BUFFALO_CROSSED>>
    ELSE IF ~any_buffalo_remaining(ps)
    THEN <<Player_HUNTERS, BUFFALO_EXTINCT>>
    ELSE <<None, None>>

\* Mutant of check_for_winner: extinction is tried before the stuck rule.
check_for_winner_extinct_first(ps, cur) ==
    IF any_buffalo_on_bottom_row(ps)
    THEN <<Player_BUFFALO, BUFFALO_CROSSED>>
    ELSE IF ~any_buffalo_remaining(ps)
    THEN <<Player_HUNTERS, BUFFALO_EXTINCT>>
    ELSE IF cur = Player_BUFFALO /\ legal_moves(ps, cur) = << >>
    THEN <<Player_HUNTERS, BUFFALO_STUCK>>
    ELSE <<None, None>>

\* Mutant of check_for_winner: the stuck rule is left out.
check_for_winner_no_stuck(ps, cur) ==
    IF any_buffalo_on_bottom_row(ps)
    THEN <<Player_BUFFALO, BUFFALO_CROSSED>>
    ELSE IF ~any_buffalo_remaining(ps)
    THEN <<Player_HUNTERS, BUFFALO_EXTINCT>>
    ELSE <<None, None>>

\* Returns <<winner, reason>>.
check_for_winner(ps, cur) ==
    IF any_buffalo_on_bottom_row(ps)
    THEN <<Player_BUFFALO, BUFFALO_CROSSED>>
    ELSE IF cur = Player_BUFFALO /\ legal_moves(ps, cur) = << >>
    THEN <<Player_HUNTERS, BUFFALO_STUCK>>
    ELSE IF ~any_buffalo_remaining(ps)
    THEN <<Player_HUNTERS, BUFFALO_EXTINCT>>
    ELSE <<None, None>>

\* The exception check_for_winner() ends with: that of legal_moves(), when
\* no Buffalo is on the bottom row and the Buffalo are to move.
check_for_winner_error(ps, cur) ==
    IF ~any_buffalo_on_bottom_row(ps) /\ cur = Player_BUFFALO
    THEN legal_moves_error(ps, cur) ELSE None

(***************************************************************************)
(* Board.move_piece                                                        *)
(***************************************************************************)
\* Board._copy_pieces: a new dict with the same items in the same order.
copy_pieces(ps) == [i \in DOMAIN ps |-> Item(ps[i].pos, Piece(ps[i].piece.type, ps[i].piece.player))]

\* Mutant of pieces_snapshot: the record keeps the board's dict itself.
pieces_snapshot_same_dict(ps) == [items |-> ps, shared |-> TRUE]

\* What move_piece stores as pieces_before / pieces_after: the dict that
\* _copy_pieces built, not shared with the board.
pieces_snapshot(ps) == [items |-> copy_pieces(ps), shared |-> FALSE]

\* board.MoveRecord as built by move_piece.
MoveRecord(mn, player, piece_type, from_pos, to_pos, before, after, captured, winner, reason) ==
    [move_number |-> mn, player |-> player, piece_type |-> piece_type,
     from_pos |-> from_pos, to_pos |-> to_pos,
     pieces_before |-> before, pieces_after |-> after,
     captured_piece |-> captured,
     winner_after_move |-> winner,
     game_over_reason |-> reason]

Raised_turn_passed(ps, cur, mn, error) ==
    [error |-> error, captured |-> None, winner |-> None, reason |-> None,
     record |-> << >>, pieces |-> ps, current_player |-> switch_player(cur),
     move_number |-> mn]

\* A call that raised: the board is as it was, nothing is returned.
Raised(ps, cur, mn, error) ==
    [error |-> error, captured |-> None, winner |-> None, reason |-> None,
     record |-> << >>, pieces |-> ps, current_player |-> cur,
     move_number |-> mn]

\* Mutant of move_piece_error: the owner of the piece is not checked.
move_piece_error_any_owner(ps, cur, from_x, from_y, to_x, to_y) ==
    LET piece == get_piece_at(ps, from_x, from_y)
    IN  IF piece = NoPiece
        THEN "ValueError: No piece at the starting position"
        ELSE IF ~assert_current_player(piece, cur)
        THEN "AssertionError"
        ELSE IF ~is_valid_move(ps, piece, from_x, from_y, to_x, to_y)
        THEN "ValueError: Invalid move"
        ELSE None

\* The checks that open move_piece: the exception raised, or None.
move_piece_error(ps, cur, from_x, from_y, to_x, to_y) ==
    LET piece == get_piece_at(ps, from_x, from_y)
    IN  IF piece = NoPiece
        THEN "ValueError: No piece at the starting position"
        ELSE IF piece.player # cur
        THEN "ValueError: Piece does not belong to current player"
        ELSE IF ~assert_current_player(piece, cur)
        THEN "AssertionError"
        ELSE IF ~is_valid_move(ps, piece, from_x, from_y, to_x, to_y)
        THEN "ValueError: Invalid move"
        ELSE None

\* The call on a board (ps, cur, mn): `error` is None and the returned tuple is
\* (captured, winner, reason, record) with `record` empty for Python's None, or
\* `error` names the exception raised. pieces, current_player and move_number
\* are the board after the call.
move_piece(ps, cur, mn, from_x, from_y, to_x, to_y, with_record) ==
    LET piece == get_piece_at(ps, from_x, from_y)
        error == move_piece_error(ps, cur, from_x, from_y, to_x, to_y)
    IN  IF error # None THEN Raised(ps, cur, mn, error)
        ELSE
        LET captured_piece == get_piece_at(ps, to_x, to_y)
            ps1 == DictDel(DictSet(ps, <<to_x, to_y>>, piece), <<from_x, from_y>>)
            pieces_before == IF pieces_snapshot(ps).shared
                             THEN ps1 ELSE pieces_snapshot(ps).items
            pieces_after == pieces_snapshot(ps1).items
            mn1 == mn + 1
            cur1 == switch_player(cur)
            result == check_for_winner(ps1, cur1)
            captured == IF captured_piece # NoPiece
                        THEN captured_piece.type ELSE None
        IN  [error |-> None,
             captured |-> captured,
             winner |-> result[1],
             reason |-> result[2],
             record |-> IF with_record
                        THEN << MoveRecord(mn1, piece.player, piece.type,
                                           Position(from_x, from_y),
                                           Position(to_x, to_y),
                                           pieces_before, pieces_after,
                                           captured, result[1], result[2]) >>
                        ELSE << >>,
             shared |-> pieces_snapshot(ps1).shared,
             pieces |-> ps1, current_player |-> cur1, move_number |-> mn1]

(***************************************************************************)
(* Construction: Board() and Board.from_pieces                             *)
(***************************************************************************)
initialize_board_back_rank ==
    [x \in 1..width |-> Item(<<x - 1, 0>>, Piece(PieceType_BUFFALO, Player_BUFFALO))]
    \o [k \in DOMAIN INITIAL_DOG_FILES |->
            Item(<<INITIAL_DOG_FILES[k], height - 1>>, Piece(PieceType_DOG, Player_HUNTERS))]
    \o << Item(<<INITIAL_KING_FILE, height - 1>>, Piece(PieceType_CHIEF, Player_HUNTERS)) >>

\* Board.initialize_board on the empty dict: Buffalo on the top rank, then
\* the Dogs, then the Chief, in that insertion order.
initialize_board ==
    [x \in 1..width |-> Item(<<x - 1, 0>>, Piece(PieceType_BUFFALO, Player_BUFFALO))]
    \o [k \in DOMAIN INITIAL_DOG_FILES |->
            Item(<<INITIAL_DOG_FILES[k], height - 2>>, Piece(PieceType_DOG, Player_HUNTERS))]
    \o << Item(<<INITIAL_KING_FILE, height - 2>>, Piece(PieceType_CHIEF, Player_HUNTERS)) >>

OwnerOf_buffalo(type) == Player_BUFFALO

\* The owner every caller in the repository gives a piece of a kind.
OwnerOf(type) ==
    IF type = PieceType_BUFFALO THEN Player_BUFFALO ELSE Player_HUNTERS

\* The mappings handed to from_pieces: at most MaxPieces pieces on squares of
\* PlaceSeq, listed in the order of PlaceSeq.
PlacedItems(sq, ty) ==
    [k \in DOMAIN sq |-> Item(PlaceSeq[sq[k]], Piece(ty[k], OwnerOf(ty[k])))]

PieceMaps ==
    UNION { { PlacedItems(sq, ty) :
                sq \in { q \in [1..n -> DOMAIN PlaceSeq] :
                            \A a, b \in 1..n : a < b => q[a] < q[b] },
                ty \in [1..n -> PieceType] } : n \in 0..MaxPieces }

\* The caller's dict: `given` when a board was built from one, its items, the
\* side passed with it, and whether the board's dict is the very same object,
\* so that what a move does to the board is done to it.
NoMapping == [given |-> FALSE, items |-> << >>, side |-> None, shared |-> FALSE]
Mapping(m, p, shared) == [given |-> TRUE, items |-> m, side |-> p, shared |-> shared]
MappingAfter(ps) ==
    IF mapping.shared THEN [mapping EXCEPT !.items = ps] ELSE mapping

\* Mutant of from_pieces: the dict passed in becomes the board's dict.
from_pieces_keeping_dict(m, p) ==
    [pieces |-> m, current_player |-> p, move_number |-> 0, shared |-> TRUE]

\* Board.from_pieces(pieces, current_player): a Board() whose dict is
\* replaced by a copy of the one passed and whose side to move is set.
from_pieces(m, p) ==
    [pieces |-> copy_pieces(m), current_player |-> p, move_number |-> 0,
     shared |-> FALSE]

\* Board(): __init__
InitBoard ==
    /\ pieces = initialize_board
    /\ current_player = Player_BUFFALO
    /\ move_number = 0
    /\ last = [op |-> "Board", error |-> None]
    /\ game = None
    /\ mapping = NoMapping
    /\ held = << >>

\* Board.from_pieces(pieces, current_player) as the construction of the
\* board, by a caller that keeps the dict it passed or lets go of it.
FromPiecesCall(keeps) ==
    \E m \in PieceMaps, p \in Player :
        \E b \in {from_pieces(m, p)} :
            /\ pieces = b.pieces
            /\ current_player = b.current_player
            /\ move_number = b.move_number
            /\ last = [op |-> "from_pieces", error |-> None]
            /\ game = None
            /\ mapping = IF keeps THEN Mapping(m, p, b.shared) ELSE NoMapping
            /\ held = << >>

InitFromPieces == FromPiecesCall(FALSE)
InitFromPiecesKept == FromPiecesCall(TRUE)

Init == InitBoard \/ InitFromPieces

\* Defaults of the max_moves guard of the two simulators' play loops.
RandomGameSimulator_max_moves == 500
simulator_max_moves == 5000

(***************************************************************************)
(* Calls on the board                                                      *)
(***************************************************************************)
Steps == (0 - MaxStep)..MaxStep

\* No caller in the repository catches what move_piece raises: an exception
\* ends the run, and no further call is made on the board.
NoException == last.error = None

\* The first MoveRecord the caller of move_piece was handed, and what a
\* later change of the board's dict does to it when it shares that dict.
HeldAfter(ps) ==
    IF held # << >> /\ held[1].shared
    THEN << [held[1] EXCEPT !.record.pieces_before = ps,
                            !.record.pieces_after = ps] >>
    ELSE held

\* The call board.move_piece(f, t, with_record) and what it leaves behind.
MovePieceCall(f, t, with_record, keeps) ==
    \E r \in {move_piece(pieces, current_player, move_number,
                         f[1], f[2], t[1], t[2], with_record)} :
        /\ pieces' = r.pieces
        /\ current_player' = r.current_player
        /\ move_number' = r.move_number
        /\ game' = game
        /\ mapping' = MappingAfter(r.pieces)
        /\ held' = IF keeps /\ held = << >> /\ r.record # << >>
                   THEN << [record |-> r.record[1], shared |-> r.shared] >>
                   ELSE HeldAfter(r.pieces)
        /\ last' = [op |-> "move_piece", from |-> f, to |-> t,
                    with_record |-> with_record,
                    before |-> [pieces |-> pieces,
                                current_player |-> current_player,
                                move_number |-> move_number],
                    error |-> r.error,
                    captured |-> r.captured, winner |-> r.winner,
                    reason |-> r.reason, record |-> r.record]

\* board.move_piece(from_x, from_y, to_x, to_y), with_record left at its
\* default. A call on an empty square is tried with one destination only.
MovePiece ==
    /\ NoException
    /\ move_number < MaxMoves
    /\ \E f \in FromSquares, dx \in Steps, dy \in Steps :
        /\ get_piece_at(pieces, f[1], f[2]) # NoPiece \/ <<dx, dy>> = <<0, 1>>
        /\ MovePieceCall(f, <<f[1] + dx, f[2] + dy>>, TRUE, FALSE)

\* The same call by a caller that keeps the first MoveRecord it is handed.
MovePieceKept ==
    /\ NoException
    /\ move_number < MaxMoves
    /\ \E f \in FromSquares, dx \in Steps, dy \in Steps :
        /\ get_piece_at(pieces, f[1], f[2]) # NoPiece \/ <<dx, dy>> = <<0, 1>>
        /\ MovePieceCall(f, <<f[1] + dx, f[2] + dy>>, TRUE, TRUE)

\* board.move_piece(..., with_record=False), as StateEncoder._apply_move calls
\* it: with a move that legal_moves returned.
MovePieceNoRecord ==
    /\ NoException
    /\ move_number < MaxMoves
    /\ \E m \in Range(legal_moves(pieces, current_player)) :
        /\ m.start \in FromSquares
        /\ m.end[1] - m.start[1] \in Steps
        /\ m.end[2] - m.start[2] \in Steps
        /\ MovePieceCall(m.start, m.end, FALSE, FALSE)

\* legal_moves() that leaves the turn with the other side.
LegalMoves_passing_turn ==
    /\ NoException
    /\ last' = [op |-> "legal_moves", error |-> None,
                moves |-> legal_moves(pieces, current_player)]
    /\ current_player' = switch_player(current_player)
    /\ UNCHANGED <<pieces, move_number, game, mapping, held>>

\* board.legal_moves()
LegalMoves ==
    /\ NoException
    /\ last' = [op |-> "legal_moves",
                error |-> legal_moves_error(pieces, current_player),
                moves |-> legal_moves(pieces, current_player)]
    /\ UNCHANGED <<pieces, current_player, move_number, game, mapping, held>>

\* board.check_for_winner()
CheckForWinner ==
    /\ NoException
    /\ LET result == check_for_winner(pieces, current_player)
       IN  last' = [op |-> "check_for_winner",
                    error |-> check_for_winner_error(pieces, current_player),
                    winner |-> result[1], reason |-> result[2]]
    /\ UNCHANGED <<pieces, current_player, move_number, game, mapping, held>>

Next == MovePiece \/ MovePieceNoRecord \/ LegalMoves \/ CheckForWinner

Spec == Init /\ [][Next]_vars

\* The calls of Next made on a board that Board() created.
SpecInitial == InitBoard /\ [][Next]_vars

\* Play on the board by move_piece alone.
NextPlay == MovePiece \/ MovePieceNoRecord
SpecPlay == Init /\ [][NextPlay]_vars

\* The board in the hands of a caller that keeps the dict it built the board
\* from and the first record it gets back.
InitCaller == InitBoard \/ InitFromPiecesKept
NextCaller == MovePieceKept \/ MovePieceNoRecord
SpecCaller == InitCaller /\ [][NextCaller]_vars

(***************************************************************************)
(* The queries on a board                                                  *)
(***************************************************************************)
\* The destinations _is_valid_move is asked about, relative to the start: one
\* row forward, one column aside, one diagonal step, and the start itself.
ProbedSteps == { <<0, 1>>, <<1, 0>>, <<1, 1>>, <<0, 0>> }

\* board._is_valid_move(piece, from_x, from_y, to_x, to_y) for a piece of the
\* side to move, as legal_moves and move_piece call it.
IsValidMove ==
    /\ NoException
    /\ \E f \in FromSquares, d \in ProbedSteps :
        \E piece \in {get_piece_at(pieces, f[1], f[2])} :
            /\ piece # NoPiece
            /\ assert_current_player(piece, current_player)
            /\ last' = [op |-> "_is_valid_move", error |-> None,
                        from |-> f, to |-> <<f[1] + d[1], f[2] + d[2]>>,
                        valid |-> is_valid_move(pieces, piece, f[1], f[2],
                                                f[1] + d[1], f[2] + d[2])]
    /\ UNCHANGED <<pieces, current_player, move_number, game, mapping, held>>

NextQueries ==
    MovePieceNoRecord \/ LegalMoves \/ IsValidMove \/ CheckForWinner

SpecQueries == Init /\ [][NextQueries]_vars

(***************************************************************************)
(* Serialization: a board text is a sequence of characters                 *)
(***************************************************************************)
\* str.split(sep): the pieces of data between the occurrences of sep, empty
\* pieces included; a text without sep is its only piece.
RECURSIVE split(_, _)
split(data, sep) ==
    IF \E i \in DOMAIN data : data[i] = sep
    THEN LET i == CHOOSE k \in DOMAIN data :
                    /\ data[k] = sep
                    /\ \A j \in 1..(k - 1) : data[j] # sep
         IN  << SubSeq(data, 1, i - 1) >>
             \o split(SubSeq(data, i + 1, Len(data)), sep)
    ELSE << data >>

\* sep.join(rows)
RECURSIVE join_plain(_, _)
join_plain(rows, sep) ==
    IF rows = << >> THEN << >>
    ELSE rows[1] \o join_plain(Tail(rows), sep)

RECURSIVE join(_, _)
join(rows, sep) ==
    IF rows = << >> THEN << >>
    ELSE IF Len(rows) = 1 THEN rows[1]
    ELSE rows[1] \o << sep >> \o join(Tail(rows), sep)

\* The character serialize appends for the square (x, y).
token_at_lowercase(ps, x, y) ==
    LET piece == get_piece_at(ps, x, y)
    IN  IF piece = NoPiece THEN "."
        ELSE IF piece.type = PieceType_BUFFALO THEN "b" ELSE piece.type

token_at(ps, x, y) ==
    LET piece == get_piece_at(ps, x, y)
    IN  IF piece # NoPiece THEN piece.type ELSE "."

\* Board.serialize: the rows y = 0 .. height-1, each the characters of the
\* squares x = 0 .. width-1, joined by "/".
serialize_bottom_up(ps) ==
    join([y \in 1..height |-> [x \in 1..width |-> token_at(ps, x - 1, height - y)]], "/")

serialize(ps) ==
    join([y \in 1..height |-> [x \in 1..width |-> token_at(ps, x - 1, y - 1)]], "/")

\* The local board of Board.deserialize while it is being filled.
Built_as_hunters(ps, error) ==
    [error |-> error,
     board |-> [pieces |-> ps, current_player |-> Player_HUNTERS, move_number |-> 0]]

Built(ps, error) ==
    [error |-> error,
     board |-> [pieces |-> ps, current_player |-> Player_BUFFALO, move_number |-> 0]]

\* The inner loop of Board.deserialize over the characters of row y, from
\* column x on.
RECURSIVE deserialize_row(_, _, _, _)
deserialize_row(row, y, x, ps) ==
    IF x >= Len(row) THEN Built(ps, None)
    ELSE LET char == row[x + 1]
         IN  IF char = "." THEN deserialize_row(row, y, x + 1, ps)
             ELSE IF char \notin PieceType
             THEN Built(ps, "ValueError: Unknown piece token")
             ELSE deserialize_row(row, y, x + 1,
                                  DictSet(ps, <<x, y>>, Piece(char, OwnerOf(char))))

\* The outer loop of Board.deserialize over the rows, from row y on.
RECURSIVE deserialize_rows_unchecked(_, _, _)
deserialize_rows_unchecked(rows, y, ps) ==
    IF y >= Len(rows) THEN Built(ps, None)
    ELSE LET r == deserialize_row(rows[y + 1], y, 0, ps)
         IN  IF r.error # None THEN r
             ELSE deserialize_rows_unchecked(rows, y + 1, r.board.pieces)

RECURSIVE deserialize_rows(_, _, _)
deserialize_rows(rows, y, ps) ==
    IF y >= Len(rows) THEN Built(ps, None)
    ELSE IF Len(rows[y + 1]) # width
    THEN Built(ps, "ValueError: Serialized board has an unexpected row width.")
    ELSE LET r == deserialize_row(rows[y + 1], y, 0, ps)
         IN  IF r.error # None THEN r
             ELSE deserialize_rows(rows, y + 1, r.board.pieces)

\* Board.deserialize(data): `error` is None and `board` is the board returned,
\* or `error` names the exception raised and `board` is the local board as
\* the exception left it, which no caller receives.
deserialize(data) ==
    LET rows == split(data, "/")
    IN  IF Len(rows) # height
        THEN Built(<< >>, "ValueError: Serialized board has an unexpected number of rows.")
        ELSE deserialize_rows(rows, 0, << >>)

(***************************************************************************)
(* Texts handed to Board.deserialize                                       *)
(***************************************************************************)
\* The text of the empty board, character by character.
BlankText ==
    [i \in 1..(height * (width + 1) - 1) |->
        IF i % (width + 1) = 0 THEN "/" ELSE "."]

\* Where the character of square sq stands in a board text.
TextIndex(sq) == sq[2] * (width + 1) + sq[1] + 1

TokenCells == << <<0, 0>> >> \o PlaceSeq

\* The blank text with the characters ch written on the cells sq.
TextWith(sq, ch) ==
    [i \in DOMAIN BlankText |->
        IF \E k \in DOMAIN sq : TextIndex(TokenCells[sq[k]]) = i
        THEN ch[CHOOSE k \in DOMAIN sq : TextIndex(TokenCells[sq[k]]) = i]
        ELSE BlankText[i]]

\* Board texts with at most MaxTokens piece characters.
WellFormedTexts ==
    UNION { { TextWith(sq, ch) :
                sq \in { q \in [1..n -> DOMAIN TokenCells] :
                            \A a, b \in 1..n : a < b => q[a] < q[b] },
                ch \in [1..n -> {"B", "D", "C"}] } : n \in 0..MaxTokens }

\* Texts that differ from the board text t as the rejected texts of the
\* tests do: a row too few or too many, a row too short or too long, a
\* character that is no piece token.
MalformedOf(t) ==
    { << >>,
      <<"t", "o", "o", "/", "f", "e", "w", "/", "r", "o", "w", "s">>,
      SubSeq(t, 1, Len(t) - 1),
      t \o << "." >>,
      Tail(t),
      SubSeq(t, width + 2, Len(t)),
      t \o << "/" >>,
      t \o << "/" >> \o SubSeq(t, 1, width),
      [t EXCEPT ![1] = "X"],
      [t EXCEPT ![Len(t)] = "b"],
      [t EXCEPT ![width] = "/"],
      [t EXCEPT ![width + 1] = "."] }

\* What a call of Board.deserialize leaves: the text, the exception if any,
\* the board returned if any, and the board the text was taken from if any.
Deserialized(text, r, source) ==
    [op |-> "deserialize", text |-> text, error |-> r.error,
     board |-> IF r.error = None THEN << r.board >> ELSE << >>,
     source |-> source]

\* Board.deserialize(text) as the construction of the board: a stored text
\* is read, as DataLoader does with the rows of a recorded game.
InitDeserialize ==
    \E t \in WellFormedTexts :
        \E text \in {t} \cup (IF Len(SelectSeq(t, LAMBDA c : c # "." /\ c # "/")) <= 1
                              THEN MalformedOf(t) ELSE {}) :
            \E r \in {deserialize(text)} :
                /\ pieces = r.board.pieces
                /\ current_player = r.board.current_player
                /\ move_number = r.board.move_number
                /\ last = Deserialized(text, r, << >>)
                /\ game = None
                /\ mapping = NoMapping
                /\ held = << >>

InitText == InitBoard \/ InitFromPieces \/ InitDeserialize

\* board.serialize()
Serialize ==
    /\ NoException
    /\ last' = [op |-> "serialize", error |-> None, text |-> serialize(pieces)]
    /\ UNCHANGED <<pieces, current_player, move_number, game, mapping, held>>

\* Board.deserialize(text) on what board.serialize() returned, as
\* StateEncoder._apply_move clones a board, or on a damaged copy of it. The
\* classmethod builds a new board and leaves the one serialized alone.
Deserialize ==
    /\ NoException
    /\ \E t \in {serialize(pieces)} :
        \E text \in {t} \cup MalformedOf(t) :
            \E r \in {deserialize(text)} :
                last' = Deserialized(text, r,
                            << [pieces |-> pieces,
                                current_player |-> current_player,
                                move_number |-> move_number] >>)
    /\ UNCHANGED <<pieces, current_player, move_number, game, mapping, held>>

NextText == MovePieceNoRecord \/ Serialize \/ Deserialize

SpecText == InitText /\ [][NextText]_vars

(***************************************************************************)
(* Game (src/src/buffalo/game.py): the loop around one board               *)
(***************************************************************************)
serialize_board_bottom_up(ps) == serialize_bottom_up(ps)

\* Mutant of serialize_board: an empty square is written "-".
serialize_board_dashes(ps) ==
    join([y \in 1..height |->
            [x \in 1..width |->
                LET piece == get_piece_at(ps, x - 1, y - 1)
                IN  IF piece # NoPiece THEN piece.type ELSE "-"]], "/")

\* game.py's own serialize_board(board).
serialize_board(ps) ==
    join([y \in 1..height |->
            [x \in 1..width |->
                LET piece == get_piece_at(ps, x - 1, y - 1)
                IN  IF piece # NoPiece THEN piece.type ELSE "."]], "/")

\* Mutant of NewGame: the game's move counter starts at one.
NewGame_counting_from_one(buffalo_controller, hunter_controller) ==
    [buffalo_controller |-> buffalo_controller,
     hunter_controller |-> hunter_controller,
     history |-> << >>,
     move_number |-> 1,
     game_over |-> FALSE,
     winner |-> << >>,
     game_over_reason |-> ""]

\* Game.__init__: a controller is None or an object with choose_move. The
\* attribute `winner` is empty for None, else holds the one value assigned.
NewGame(buffalo_controller, hunter_controller) ==
    [buffalo_controller |-> buffalo_controller,
     hunter_controller |-> hunter_controller,
     history |-> << >>,
     move_number |-> 0,
     game_over |-> FALSE,
     winner |-> << >>,
     game_over_reason |-> ""]

\* Game.controller_for_current_player
controller_for_current_player(g, cur) ==
    IF cur = Player_BUFFALO THEN g.buffalo_controller ELSE g.hunter_controller

\* Game._build_record on the board (ps, cur), with the keyword arguments in
\* args. `winner` is what check_for_winner returns, the pair (winner, reason),
\* which is never the object None and never equal to a Player.
build_record(g, ps, cur, args) ==
    LET winner == check_for_winner(ps, cur)
        game_over0 == winner # None
        no_moves_left ==
            ~game_over0 /\ args.move_made /\ legal_moves(ps, cur) = << >>
        game_over1 == game_over0 \/ no_moves_left
        reason1 == IF no_moves_left THEN "no_moves" ELSE args.game_over_reason
        game_over == game_over1 \/ (~args.move_made /\ reason1 # "")
        game_over_reason ==
            IF winner = Player_BUFFALO THEN "buffalo_reached_end" ELSE reason1
    IN  [game |-> IF game_over
                  THEN [g EXCEPT !.game_over = TRUE,
                                 !.winner = << winner >>,
                                 !.game_over_reason = game_over_reason]
                  ELSE g,
         record |-> [move_number |-> args.move_number,
                     player |-> args.player,
                     piece_type |-> args.piece_type,
                     from_pos |-> args.from_pos,
                     to_pos |-> args.to_pos,
                     board_before |-> args.board_before,
                     board_after |-> args.board_after,
                     captured_piece |-> args.captured_piece,
                     legal_moves |-> args.legal_moves_count,
                     move_made |-> args.move_made,
                     game_over |-> game_over,
                     winner |-> winner,
                     game_over_reason |-> game_over_reason]]

\* What a call on the game leaves: the exception if any, the record returned
\* (empty for None), and the game and its board after the call.
Outcome_history_lost(error, returned, g, ps, cur, mn) ==
    [error |-> error, returned |-> returned,
     game |-> [g EXCEPT !.history = << >>],
     pieces |-> ps, current_player |-> cur, move_number |-> mn]

Outcome(error, returned, g, ps, cur, mn) ==
    [error |-> error, returned |-> returned, game |-> g,
     pieces |-> ps, current_player |-> cur, move_number |-> mn]

\* Game._record_no_moves(legal_moves_count)
record_no_moves(g, ps, cur, mn, legal_moves_count) ==
    LET board_state == serialize_board(ps)
        b == build_record(g, ps, cur,
                [move_number |-> g.move_number,
                 player |-> cur,
                 piece_type |-> None,
                 from_pos |-> None,
                 to_pos |-> None,
                 board_before |-> board_state,
                 board_after |-> board_state,
                 captured_piece |-> None,
                 legal_moves_count |-> legal_moves_count,
                 move_made |-> FALSE,
                 game_over_reason |-> "no_moves"])
    IN  Outcome(None, << b.record >>,
                [b.game EXCEPT !.history = Append(@, b.record)], ps, cur, mn)

\* Game.apply_move(from_pos, to_pos, legal_moves_count), legal_moves_count
\* empty for None. What board.move_piece returns is a tuple, which `not moved`
\* never rejects; what it raises leaves apply_move.
apply_move(g, ps, cur, mn, from_pos, to_pos, legal_moves_count) ==
    IF g.game_over THEN Outcome(None, << >>, g, ps, cur, mn)
    ELSE
    LET mover == cur
        board_before == serialize_board(ps)
        count == IF legal_moves_count = << >>
                 THEN Len(legal_moves(ps, cur)) ELSE legal_moves_count[1]
        piece == get_piece_at(ps, from_pos[1], from_pos[2])
    IN  IF piece = NoPiece \/ piece.player # mover
        THEN Outcome(None, << >>, g, ps, cur, mn)
        ELSE
        LET captured_piece == get_piece_at(ps, to_pos[1], to_pos[2])
            moved == move_piece(ps, cur, mn, from_pos[1], from_pos[2],
                                to_pos[1], to_pos[2], TRUE)
        IN  IF moved.error # None
            THEN Outcome(moved.error, << >>, g, ps, cur, mn)
            ELSE
            LET board_after == serialize_board(moved.pieces)
                g1 == [g EXCEPT !.move_number = @ + 1]
                b == build_record(g1, moved.pieces, moved.current_player,
                        [move_number |-> g1.move_number,
                         player |-> mover,
                         piece_type |-> piece.type,
                         from_pos |-> from_pos,
                         to_pos |-> to_pos,
                         board_before |-> board_before,
                         board_after |-> board_after,
                         captured_piece |-> IF captured_piece # NoPiece
                                            THEN captured_piece.type ELSE None,
                         legal_moves_count |-> count,
                         move_made |-> TRUE,
                         game_over_reason |-> ""])
            IN  Outcome(None, << b.record >>,
                        [b.game EXCEPT !.history = Append(@, b.record)],
                        moved.pieces, moved.current_player, moved.move_number)

\* Mutant of step: a controller that chooses no move is passed over.
step_skipping_turn(g, ps, cur, mn, choice) ==
    IF g.game_over THEN Outcome(None, << >>, g, ps, cur, mn)
    ELSE IF controller_for_current_player(g, cur) = None
    THEN Outcome(None, << >>, g, ps, cur, mn)
    ELSE
    LET moves == legal_moves(ps, cur)
    IN  IF moves = << >> THEN record_no_moves(g, ps, cur, mn, 0)
        ELSE IF choice = << >> THEN Outcome(None, << >>, g, ps, cur, mn)
        ELSE apply_move(g, ps, cur, mn, choice[1].start, choice[1].end,
                        << Len(moves) >>)

\* Mutant of step: the game-over check is left out.
step_on_finished_game(g, ps, cur, mn, choice) ==
    IF controller_for_current_player(g, cur) = None
    THEN Outcome(None, << >>, g, ps, cur, mn)
    ELSE
    LET moves == legal_moves(ps, cur)
    IN  IF moves = << >> THEN record_no_moves(g, ps, cur, mn, 0)
        ELSE IF choice = << >> THEN record_no_moves(g, ps, cur, mn, Len(moves))
        ELSE apply_move(g, ps, cur, mn, choice[1].start, choice[1].end,
                        << Len(moves) >>)

\* Game.step(), `choice` being what the controller's choose_move returns: a
\* move, or empty for None.
step(g, ps, cur, mn, choice) ==
    IF g.game_over THEN Outcome(None, << >>, g, ps, cur, mn)
    ELSE IF controller_for_current_player(g, cur) = None
    THEN Outcome(None, << >>, g, ps, cur, mn)
    ELSE
    LET moves == legal_moves(ps, cur)
    IN  IF moves = << >> THEN record_no_moves(g, ps, cur, mn, 0)
        ELSE IF choice = << >> THEN record_no_moves(g, ps, cur, mn, Len(moves))
        ELSE apply_move(g, ps, cur, mn, choice[1].start, choice[1].end,
                        << Len(moves) >>)

Controllers == {None, "controller"}

\* Game(buffalo_controller, hunter_controller, board): on a new Board() when
\* no board is given, else on the board given.
InitGame ==
    \E bc \in Controllers, hc \in Controllers :
        /\ \/ /\ pieces = initialize_board
              /\ current_player = Player_BUFFALO
           \/ \E m \in PieceMaps, p \in Player :
                \E b \in {from_pieces(m, p)} :
                    /\ pieces = b.pieces
                    /\ current_player = b.current_player
        /\ mapping = NoMapping
        /\ held = << >>
        /\ move_number = 0
        /\ game = NewGame(bc, hc)
        /\ last = [op |-> "Game", error |-> None]

\* A call on the game and what it leaves behind.
GameCall(op, args, r) ==
    /\ pieces' = r.pieces
    /\ current_player' = r.current_player
    /\ move_number' = r.move_number
    /\ game' = r.game
    /\ mapping' = MappingAfter(r.pieces)
    /\ held' = held
    /\ last' = [op |-> op, args |-> args,
                before |-> [pieces |-> pieces,
                            current_player |-> current_player,
                            move_number |-> move_number,
                            game |-> game],
                error |-> r.error, returned |-> r.returned]

\* A call on the game that returned None has changed neither the game nor
\* its board: the calls that can follow it are the calls that could be made
\* in its place, with the same outcomes, and are not made a second time.
Idle ==
    /\ last.op \in {"step", "apply_move"}
    /\ last.error = None
    /\ last.returned = << >>

\* step() asks the controller only on an ongoing game, when the side to move
\* has a controller and a legal move.
ControllerAsked ==
    /\ ~game.game_over
    /\ controller_for_current_player(game, current_player) # None
    /\ legal_moves(pieces, current_player) # << >>

\* What choose_move returns: a move between squares of the model, which is
\* one of the legal moves for the controllers of the repository and any
\* other move for a controller that breaks the protocol, or None (empty
\* here, as when the controller is not asked). A move from an empty square
\* is tried with one destination only.
ControllerChoices ==
    IF ControllerAsked
    THEN { << Move(current_player, get_piece_at(pieces, c[1][1], c[1][2]),
                   c[1], <<c[1][1] + c[2], c[1][2] + c[3]>>) >> :
                c \in { d \in FromSquares \X Steps \X Steps :
                            \/ get_piece_at(pieces, d[1][1], d[1][2]) # NoPiece
                            \/ <<d[2], d[3]>> = <<0, 1>> } }
         \cup { << >> }
    ELSE { << >> }

\* game.step()
Step ==
    /\ NoException /\ ~Idle
    /\ move_number < MaxMoves
    /\ \E choice \in ControllerChoices :
        \E r \in {step(game, pieces, current_player, move_number, choice)} :
            GameCall("step", choice, r)

\* game.apply_move(from_pos, to_pos) called directly, legal_moves_count left
\* at its default. A call on an empty square is tried with one destination
\* only, and a call on a game that is over with one pair of squares only.
ApplyMove ==
    /\ NoException /\ ~Idle
    /\ move_number < MaxMoves
    /\ \E f \in FromSquares, dx \in Steps, dy \in Steps :
        /\ get_piece_at(pieces, f[1], f[2]) # NoPiece \/ <<dx, dy>> = <<0, 1>>
        /\ game.game_over => f = PlaceSeq[1] /\ <<dx, dy>> = <<0, 1>>
        /\ \E r \in {apply_move(game, pieces, current_player, move_number,
                               f, <<f[1] + dx, f[2] + dy>>, << >>)} :
            GameCall("apply_move", <<f, <<f[1] + dx, f[2] + dy>>>>, r)

NextGame == Step \/ ApplyMove

SpecGame == InitGame /\ [][NextGame]_vars

\* The game driven by step() alone, as the simulators drive it.
NextSteps == Step
SpecSteps == InitGame /\ [][NextSteps]_vars

(***************************************************************************)
(* compute_reward (src/src/buffalo/dqn.py)                                 *)
(***************************************************************************)
\* compute_reward(board, player): `winner` is what check_for_winner returned,
\* the pair <<winner, reason>>, compared as it is with None and with player.
\* The floats 0.0, 1.0 and -1.0 are written 0, 1 and -1.
compute_reward(ps, cur, player) ==
    LET winner == check_for_winner(ps, cur)
    IN  IF winner = None THEN 0
        ELSE IF winner = player THEN 1 ELSE 0 - 1

\* compute_reward(board, player) on the board, for either side.
ComputeReward ==
    /\ NoException
    /\ \E player \in Player :
        last' = [op |-> "compute_reward", error |-> None, player |-> player,
                 reward |-> compute_reward(pieces, current_player, player)]
    /\ UNCHANGED <<pieces, current_player, move_number, game, mapping, held>>

NextReward == MovePieceNoRecord \/ ComputeReward

SpecReward == Init /\ [][NextReward]_vars

(***************************************************************************)
(* Vocabulary of the properties: the board as a placement of pieces on     *)
(* squares, and the movement rules as the specification words them.        *)
(***************************************************************************)
AllSquares == (0..(width - 1)) \X (0..(height - 1))

Inside(sq) == sq[1] \in 0..(width - 1) /\ sq[2] \in 0..(height - 1)
Empty(ps, sq) == sq \notin Keys(ps)
PieceOn(ps, sq) == get_piece_at(ps, sq[1], sq[2])
Opponent(p) == CHOOSE q \in Player : q # p
Max(a, b) == IF a >= b THEN a ELSE b

\* The last call returned a (winner, reason) pair computed on the present board.
WinnerReported ==
    \/ last.op = "check_for_winner"
    \/ last.op = "move_piece" /\ last.error = None

\* The last call was move_piece, made on the board last.before.
Moved == last.op = "move_piece" /\ last.error = None
MoverBefore == PieceOn(last.before.pieces, last.from)

\* start and end of the moves a legal_moves call returned
Pairs(moves) == {<<moves[i].start, moves[i].end>> : i \in DOMAIN moves}

BuffaloRule(ps, f, t) ==
    /\ Inside(t)
    /\ t[1] = f[1]
    /\ t[2] = f[2] + 1
    /\ Empty(ps, t)

ChiefRule(ps, f, t) ==
    /\ Inside(t)
    /\ t # f
    /\ Abs(t[1] - f[1]) <= 1
    /\ Abs(t[2] - f[2]) <= 1
    /\ t[2] # 0
    /\ t[2] # height - 1
    /\ Empty(ps, t) \/ PieceOn(ps, t).player = Player_BUFFALO

OnLine(f, t) ==
    \/ t[1] = f[1]
    \/ t[2] = f[2]
    \/ Abs(t[1] - f[1]) = Abs(t[2] - f[2])

\* The squares strictly between f and t, for t on a line through f.
Between(f, t) ==
    LET n == Max(Abs(t[1] - f[1]), Abs(t[2] - f[2]))
    IN  { <<f[1] + ((t[1] - f[1]) \div n) * k, f[2] + ((t[2] - f[2]) \div n) * k>> :
            k \in 1..(n - 1) }

DogRule(ps, f, t) ==
    /\ Inside(t)
    /\ t # f
    /\ Empty(ps, t)
    /\ t[2] # 0
    /\ t[2] # height - 1
    /\ OnLine(f, t)
    /\ \A sq \in Between(f, t) : Empty(ps, sq)

\* The legality rule of a piece kind.
Rule(type, ps, f, t) ==
    IF type = PieceType_BUFFALO THEN BuffaloRule(ps, f, t)
    ELSE IF type = PieceType_CHIEF THEN ChiefRule(ps, f, t)
    ELSE DogRule(ps, f, t)

\* move_piece and legal_moves, as far as the last call shows, decide the
\* moves of the pieces of kind `type` by Rule: a move_piece call that starts
\* on such a piece of the side to move succeeds exactly when the rule holds,
\* and a legal_moves result holds (start, end) for such a piece, over every
\* square `end` of the board, exactly when the rule holds.
DecidedByRule(type) ==
    /\ ( /\ last.op = "move_piece"
         /\ MoverBefore.type = type
         /\ MoverBefore.player = last.before.current_player )
       => ( last.error = None <=> Rule(type, last.before.pieces, last.from, last.to) )
    /\ last.op = "legal_moves"
       => \A i \in DOMAIN pieces : \A e \in AllSquares :
            ( /\ pieces[i].piece.type = type
              /\ pieces[i].piece.player = current_player )
            => ( <<pieces[i].pos, e>> \in Pairs(last.moves)
                 <=> Rule(type, pieces, pieces[i].pos, e) )

\* C1: a successful move_piece(from, to) puts the moved piece on `to` in place
\* of whatever stood there, empties `from`, leaves every other square as it
\* was, adds one to move_number, hands the turn to the other side, and
\* returns the kind that stood on `to` (None if empty) with what
\* check_for_winner gives on the new board.
C1_MovePieceEffect ==
    Moved =>
        LET b == last.before
        IN  /\ PieceOn(pieces, last.to) = PieceOn(b.pieces, last.from)
            /\ Empty(pieces, last.from)
            /\ Keys(pieces) = (Keys(b.pieces) \ {last.from}) \cup {last.to}
            /\ Len(pieces) = Cardinality(Keys(pieces))
            /\ \A sq \in Keys(b.pieces) \ {last.from, last.to} :
                    PieceOn(pieces, sq) = PieceOn(b.pieces, sq)
            /\ move_number = b.move_number + 1
            /\ current_player = Opponent(b.current_player)
            /\ last.captured = IF Empty(b.pieces, last.to) THEN None
                               ELSE PieceOn(b.pieces, last.to).type
            /\ <<last.winner, last.reason>> = check_for_winner(pieces, current_player)

\* A move that captured a Buffalo has been applied.
C1_Witness == Moved /\ last.captured = PieceType_BUFFALO

\* C2: move_piece(from, to) raises ValueError exactly when `from` is empty, or
\* holds a piece of the side not to move, or the legality predicate is false
\* for the piece; otherwise it succeeds.
C2_MovePieceFailsIff ==
    last.op = "move_piece" =>
        LET b == last.before
            piece == PieceOn(b.pieces, last.from)
            refused ==
                \/ Empty(b.pieces, last.from)
                \/ piece.player # b.current_player
                \/ ~is_valid_move(b.pieces, piece, last.from[1], last.from[2],
                                  last.to[1], last.to[2])
        IN  /\ last.error # None <=> refused
            /\ last.error \in {None,
                               "ValueError: No piece at the starting position",
                               "ValueError: Piece does not belong to current player",
                               "ValueError: Invalid move"}

\* A call was refused because the piece belongs to the side not to move.
C2_Witness ==
    /\ last.op = "move_piece"
    /\ last.error = "ValueError: Piece does not belong to current player"

\* C3: legal_moves() returns, once each, exactly the pairs (start, end) with
\* a piece of the side to move on start, end a square of the board and the
\* legality predicate true; every Move carries current_player and the piece
\* on its start.
C3_LegalMovesExact ==
    last.op = "legal_moves" =>
        LET expected ==
                { m \in Keys(pieces) \X AllSquares :
                    /\ PieceOn(pieces, m[1]).player = current_player
                    /\ is_valid_move(pieces, PieceOn(pieces, m[1]),
                                     m[1][1], m[1][2], m[2][1], m[2][2]) }
        IN  /\ Pairs(last.moves) = expected
            /\ Len(last.moves) = Cardinality(expected)
            /\ \A i \in DOMAIN last.moves :
                    /\ last.moves[i].player = current_player
                    /\ last.moves[i].piece = PieceOn(pieces, last.moves[i].start)

\* legal_moves returned moves of two pieces on a board that also holds a
\* piece of the other side.
C3_Witness ==
    /\ last.op = "legal_moves"
    /\ Cardinality({last.moves[i].start : i \in DOMAIN last.moves}) >= 2
    /\ \E i \in DOMAIN pieces : pieces[i].piece.player # current_player

\* C4: a Buffalo of the side to move may go to a square if and only if the
\* square is on the board, in the same column, one row further and empty.
C4_BuffaloRule == DecidedByRule(PieceType_BUFFALO)

\* A Buffalo has stepped from row height-2 onto the bottom row.
C4_Witness ==
    /\ Moved
    /\ MoverBefore.type = PieceType_BUFFALO
    /\ last.from[2] = height - 2
    /\ last.to[2] = height - 1

C6_DogRule == DecidedByRule(PieceType_DOG)

\* legal_moves was asked for a Dog that has an empty square of the middle
\* rows on one of its lines, behind another piece.
C6_Witness ==
    /\ last.op = "legal_moves"
    /\ \E i \in DOMAIN pieces : \E e \in AllSquares :
        /\ pieces[i].piece.type = PieceType_DOG
        /\ pieces[i].piece.player = current_player
        /\ e # pieces[i].pos
        /\ OnLine(pieces[i].pos, e)
        /\ Empty(pieces, e)
        /\ e[2] \in 1..(height - 2)
        /\ \E sq \in Between(pieces[i].pos, e) : ~Empty(pieces, sq)
        /\ <<pieces[i].pos, e>> \notin Pairs(last.moves)

BuffaloOnBottomRow(ps) ==
    \E i \in DOMAIN ps :
        ps[i].piece.type = PieceType_BUFFALO /\ ps[i].pos[2] = height - 1

NoBuffalo(ps) == \A i \in DOMAIN ps : ps[i].piece.type # PieceType_BUFFALO

\* Every piece of the Buffalo side is blocked (or there is none).
BuffaloSideBlocked(ps) ==
    \A i \in DOMAIN ps : \A e \in AllSquares :
        ps[i].piece.player = Player_BUFFALO
        => ~Rule(ps[i].piece.type, ps, ps[i].pos, e)

StuckRuleApplies(ps, cur) == cur = Player_BUFFALO /\ BuffaloSideBlocked(ps)

\* C7: check_for_winner reports (Buffalo, buffalo_crossed) if and only if a
\* Buffalo stands on the bottom row, whoever is to move.
C7_CrossedIff ==
    WinnerReported =>
        ( (last.winner = Player_BUFFALO /\ last.reason = BUFFALO_CROSSED)
          <=> BuffaloOnBottomRow(pieces) )

\* Crossing was reported on a board where the Buffalo side is to move and has
\* no legal move.
C7_Witness ==
    /\ WinnerReported
    /\ last.reason = BUFFALO_CROSSED
    /\ StuckRuleApplies(pieces, current_player)

\* C8: with no Buffalo on the bottom row, the Buffalo side to move and no
\* legal move for it, check_for_winner reports (Hunters, buffalo_stuck).
C8_StuckReported ==
    ( /\ WinnerReported
      /\ ~BuffaloOnBottomRow(pieces)
      /\ StuckRuleApplies(pieces, current_player) )
    => (last.winner = Player_HUNTERS /\ last.reason = BUFFALO_STUCK)

\* The Buffalo side was reported stuck with a Buffalo still on the board.
C8_Witness ==
    /\ WinnerReported
    /\ last.reason = BUFFALO_STUCK
    /\ ~NoBuffalo(pieces)

\* C9: with no Buffalo on the bottom row and the stuck rule not applying,
\* check_for_winner reports (Hunters, buffalo_extinct) when no Buffalo is
\* left and (None, None) otherwise; winner and reason are always both present
\* or both absent.
C9_ExtinctOrOngoing ==
    WinnerReported =>
        /\ (last.winner = None <=> last.reason = None)
        /\ ( ~BuffaloOnBottomRow(pieces) /\ ~StuckRuleApplies(pieces, current_player) )
           => IF NoBuffalo(pieces)
              THEN last.winner = Player_HUNTERS /\ last.reason = BUFFALO_EXTINCT
              ELSE last.winner = None /\ last.reason = None

\* Extinction was reported.
C9_Witness == WinnerReported /\ last.reason = BUFFALO_EXTINCT

\* The board descends from the initial one: a from_pieces mapping of the
\* model is never as large.
FromInitialBoard == Len(pieces) >= Len(initialize_board) - MaxMoves

\* C10: on every board reached from the initial one, legal_moves() holds no
\* move that ends off the board, none that ends where it starts, and no
\* Buffalo move but one row forward in its column onto an empty square.
C10_LegalMovesSane ==
    last.op = "legal_moves" =>
        \A i \in DOMAIN last.moves :
            LET m == last.moves[i]
            IN  /\ Inside(m.end)
                /\ m.start # m.end
                /\ m.piece.type = PieceType_BUFFALO
                   => /\ m.end = <<m.start[1], m.start[2] + 1>>
                      /\ Empty(pieces, m.end)

\* legal_moves returned Buffalo moves after a move of each side on the
\* initial board.
C10_Witness ==
    /\ last.op = "legal_moves"
    /\ FromInitialBoard
    /\ move_number = 2
    /\ \E i \in DOMAIN last.moves : last.moves[i].piece.type = PieceType_BUFFALO

\* C11: on a board created by Board(), move_number starts at 0 and never
\* decreases, a call of move_piece that succeeds adds one to it and hands the
\* turn to the other side, a call that fails (and every other call) changes
\* neither, so that move_number counts the successful calls and Buffalo is
\* to move exactly when it is even.
C11_MoveNumberCountsMoves ==
    /\ move_number = 0 /\ current_player = Player_BUFFALO
    /\ [](current_player = Player_BUFFALO <=> move_number % 2 = 0)
    /\ [][IF last'.op = "move_piece" /\ last'.error = None
          THEN /\ move_number' = move_number + 1
               /\ current_player' = Opponent(current_player)
          ELSE /\ move_number' = move_number
               /\ current_player' = current_player]_vars

C11_Witness ==
    /\ FromInitialBoard
    /\ Moved /\ last.before.move_number = 1
    /\ move_number = 2 /\ current_player = Player_BUFFALO

(***************************************************************************)
(* Vocabulary of the properties on board texts                             *)
(***************************************************************************)
\* The placement of a board: which piece stands on which square.
Placement(ps) == { <<ps[i].pos, ps[i].piece>> : i \in DOMAIN ps }

TokenChars == {".", "B", "D", "C"}
Separators(t) == { i \in DOMAIN t : t[i] = "/" }
RowCount(t) == Cardinality(Separators(t)) + 1
RowBounds(t) == {0} \cup Separators(t) \cup {Len(t) + 1}
NextBound(t, a) ==
    CHOOSE b \in RowBounds(t) : b > a /\ \A c \in RowBounds(t) : c > a => b <= c
RowLengths(t) == { NextBound(t, a) - a - 1 : a \in RowBounds(t) \ {Len(t) + 1} }

\* Exactly height rows of exactly width characters of TokenChars.
WellFormedText(t) ==
    /\ RowCount(t) = height
    /\ \A n \in RowLengths(t) : n = width
    /\ \A i \in DOMAIN t : t[i] = "/" \/ t[i] \in TokenChars

\* The last call was Board.deserialize on what serialize returned for the
\* board last.source.
Cloned ==
    /\ last.op = "deserialize"
    /\ last.source # << >>
    /\ last.text = serialize(last.source[1].pieces)

\* C12: on every board reached by legal moves from Board() or from a board
\* that Board.deserialize returned, each occupied square is inside the board,
\* each Buffalo piece belongs to the Buffalo side and each Dog and Chief to
\* the Hunters.
C12_PiecesWellPlaced ==
    \A i \in DOMAIN pieces :
        /\ pieces[i].pos[1] \in 0..(width - 1)
        /\ pieces[i].pos[2] \in 0..(height - 1)
        /\ pieces[i].piece.type = PieceType_BUFFALO
                => pieces[i].piece.player = Player_BUFFALO
        /\ pieces[i].piece.type \in {PieceType_DOG, PieceType_CHIEF}
                => pieces[i].piece.player = Player_HUNTERS

C12_Witness ==
    /\ Moved /\ ~FromInitialBoard
    /\ PieceOn(pieces, <<0, 0>>) = Piece(PieceType_BUFFALO, Player_BUFFALO)
    /\ last.from = <<10, 0>> /\ last.to = <<10, 1>>
    /\ Len(pieces) = 2

C14_TextRoundTrip ==
    /\ [](last.op = "deserialize" /\ WellFormedText(last.text)
            => last.error = None)
    /\ [][(/\ last.op = "deserialize" /\ last.source = << >>
           /\ WellFormedText(last.text)
           /\ last'.op = "serialize")
          => last'.text = last.text]_vars

C14_Witness ==
    /\ last.op = "serialize"
    /\ move_number = 0 /\ ~FromInitialBoard
    /\ PieceOn(pieces, <<0, 0>>) = Piece(PieceType_BUFFALO, Player_BUFFALO)
    /\ PieceOn(pieces, <<10, 6>>) = Piece(PieceType_CHIEF, Player_HUNTERS)
    /\ last.text[TextIndex(<<0, 0>>)] = "B"
    /\ last.text[TextIndex(<<10, 6>>)] = "C"

\* C15: Board.deserialize raises a ValueError exactly when the text has not
\* height rows, or a row has not width characters, or a character is none of
\* ".", "B", "D", "C"; when it raises no board is returned.
C15_DeserializeFailsIff ==
    last.op = "deserialize" =>
        /\ last.error # None <=>
                \/ RowCount(last.text) # height
                \/ \E n \in RowLengths(last.text) : n # width
                \/ \E i \in DOMAIN last.text :
                        last.text[i] # "/" /\ last.text[i] \notin TokenChars
        /\ last.error # None =>
                /\ last.board = << >>
                /\ last.error \in
                    {"ValueError: Serialized board has an unexpected number of rows.",
                     "ValueError: Serialized board has an unexpected row width.",
                     "ValueError: Unknown piece token"}
        /\ last.error = None => Len(last.board) = 1

C15_Witness ==
    /\ last.op = "deserialize"
    /\ last.error = "ValueError: Unknown piece token"
    /\ RowCount(last.text) = height
    /\ \A n \in RowLengths(last.text) : n = width
    /\ last.board = << >>
    /\ pieces # << >>

\* C16: a board returned by Board.deserialize has Buffalo to move and move
\* number 0, whatever the text and whatever the side to move and the move
\* number of the board the text was taken from.
C16_DeserializeResetsTurn ==
    last.op = "deserialize" /\ last.error = None =>
        /\ last.board[1].current_player = Player_BUFFALO
        /\ last.board[1].move_number = 0
        /\ last.source = << >> =>
                current_player = Player_BUFFALO /\ move_number = 0

C16_Witness ==
    /\ Cloned /\ last.error = None
    /\ last.source[1].current_player = Player_HUNTERS
    /\ last.source[1].move_number = 1
    /\ last.board[1].pieces # << >>

\* C17: serialize returns height rows of width characters, row 0 first,
\* joined by "/": the character of row y, column x is the kind of the piece on
\* (x, y), or "." when the square is empty, whoever is to move and whatever
\* the move number.
C17_SerializeFormat ==
    last.op = "serialize" =>
        /\ Len(last.text) = height * width + (height - 1)
        /\ \A y \in 1..(height - 1) : last.text[y * (width + 1)] = "/"
        /\ \A x \in 0..(width - 1), y \in 0..(height - 1) :
                last.text[y * (width + 1) + x + 1] =
                    IF Empty(pieces, <<x, y>>) THEN "."
                    ELSE IF PieceOn(pieces, <<x, y>>).type = PieceType_BUFFALO THEN "B"
                    ELSE IF PieceOn(pieces, <<x, y>>).type = PieceType_DOG THEN "D"
                    ELSE "C"

C17_Witness ==
    /\ last.op = "serialize"
    /\ current_player = Player_HUNTERS /\ move_number = 1
    /\ \E i, j \in DOMAIN pieces :
            /\ pieces[i].piece.type = PieceType_DOG
            /\ pieces[j].piece.type = PieceType_BUFFALO
            /\ pieces[i].pos[2] # pieces[j].pos[2]

\* C18: a board just created by Board() holds a Buffalo on each square of
\* row 0, Dogs on columns 3, 4, 6 and 7 of row height-2, the Chief on column 5
\* of that row and nothing else, with Buffalo to move and move number 0; its
\* legal_moves() are the width moves (x, 0) -> (x, 1), one per column.
C18_FreshBoard ==
    move_number = 0 =>
        /\ current_player = Player_BUFFALO
        /\ Len(pieces) = width + 4 + 1
        /\ Placement(pieces) =
                { <<<<x, 0>>, Piece(PieceType_BUFFALO, Player_BUFFALO)>> :
                    x \in 0..(width - 1) }
                \cup { <<<<x, height - 2>>, Piece(PieceType_DOG, Player_HUNTERS)>> :
                    x \in {3, 4, 6, 7} }
                \cup { <<<<5, height - 2>>, Piece(PieceType_CHIEF, Player_HUNTERS)>> }
        /\ last.op = "legal_moves" =>
                /\ Len(last.moves) = width
                /\ Range(last.moves) =
                        { Move(Player_BUFFALO,
                               Piece(PieceType_BUFFALO, Player_BUFFALO),
                               <<x, 0>>, <<x, 1>>) : x \in 0..(width - 1) }

C18_Witness ==
    /\ move_number = 0
    /\ last.op = "legal_moves"
    /\ Len(last.moves) = width
    /\ Len(pieces) = Len(initialize_board)

LastRecord == game.history[Len(game.history)]

GameCalled == last.op \in {"step", "apply_move"}

\* C21: once game_over is true it stays true, and every step() and
\* apply_move() on the game returns None, raises nothing and leaves the
\* board (placement, side to move, move number) and the game (move number,
\* history, winner, game_over_reason) as they were.
C21_TerminalStays ==
    [][game.game_over =>
        /\ game'.game_over
        /\ last'.op \in {"step", "apply_move"}
        /\ last'.error = None /\ last'.returned = << >>
        /\ pieces' = pieces
        /\ current_player' = current_player
        /\ move_number' = move_number
        /\ game'.move_number = game.move_number
        /\ game'.history = game.history
        /\ game'.winner = game.winner
        /\ game'.game_over_reason = game.game_over_reason]_vars

C21_Witness ==
    /\ last.op = "step"
    /\ last.before.game.game_over
    /\ last.before.game.history # << >>
    /\ last.before.game.history[1].move_made
    /\ controller_for_current_player(game, current_player) # None
    /\ legal_moves(pieces, current_player) # << >>
    /\ last.returned = << >> /\ game = last.before.game

\* The step just taken handled a turn: it applied a move to the board, or it
\* was a step() on an ongoing game whose side to move had a controller and
\* either no legal move or a controller that chose none.
TurnHandled ==
    \/ move_number' = move_number + 1
    \/ /\ last'.op = "step"
       /\ ~game.game_over
       /\ controller_for_current_player(game, current_player) # None
       /\ \/ legal_moves(pieces, current_player) = << >>
          \/ last'.args = << >>

\* C22: a call on the game that handles a turn appends exactly one record to
\* the end of the history, which is the record it returns; no other call
\* changes the history, and the records already in it stay as they are.
C22_HistoryAppendOnly ==
    [][/\ Len(game'.history) \in {Len(game.history), Len(game.history) + 1}
       /\ SubSeq(game'.history, 1, Len(game.history)) = game.history
       /\ TurnHandled <=> Len(game'.history) = Len(game.history) + 1
       /\ TurnHandled =>
            last'.returned = << game'.history[Len(game'.history)] >>]_vars

C22_Witness ==
    /\ GameCalled
    /\ Len(game.history) = Len(last.before.game.history) + 1
    /\ last.returned = << LastRecord >>
    /\ LastRecord.move_made
    /\ move_number = last.before.move_number + 1

\* The last call on the game applied a move and returned its record.
MoveApplied ==
    /\ GameCalled
    /\ last.returned # << >>
    /\ last.returned[1].move_made

\* The squares the last call on the game was asked to move between.
AskedFrom == IF last.op = "step" THEN last.args[1].start ELSE last.args[1]
AskedTo == IF last.op = "step" THEN last.args[1].end ELSE last.args[2]

\* C23: the record of a move applied through the game has the text of the
\* board before the move as board_before and of the board after it as
\* board_after, the side that was to move as player, the kind of the piece
\* moved and the squares it moved between as piece_type, from_pos and to_pos,
\* and as captured_piece the kind of the piece that stood on the destination
\* (None if it was empty); each record's board_before is the board_after of
\* the record before it.
C23_RecordDescribesMove ==
    /\ MoveApplied =>
        LET rec == last.returned[1]
            before == last.before
        IN  /\ rec.board_before = serialize(before.pieces)
            /\ rec.board_after = serialize(pieces)
            /\ rec.player = before.current_player
            /\ rec.from_pos = AskedFrom /\ rec.to_pos = AskedTo
            /\ PieceOn(before.pieces, rec.from_pos) # NoPiece
            /\ rec.piece_type = PieceOn(before.pieces, rec.from_pos).type
            /\ PieceOn(pieces, rec.to_pos) = PieceOn(before.pieces, rec.from_pos)
            /\ Empty(pieces, rec.from_pos)
            /\ rec.captured_piece =
                    IF Empty(before.pieces, rec.to_pos) THEN None
                    ELSE PieceOn(before.pieces, rec.to_pos).type
    /\ \A i \in 2..Len(game.history) :
            game.history[i].board_before = game.history[i - 1].board_after

C23_Witness ==
    /\ MoveApplied
    /\ last.op = "step"
    /\ last.returned[1].captured_piece = PieceType_BUFFALO
    /\ last.returned[1].piece_type = PieceType_CHIEF
    /\ last.returned[1].board_before # last.returned[1].board_after

\* C24: when check_for_winner reports a side as winner on the board a move
\* has left, the record of the move carries that side as winner and so does
\* the game, with reason "buffalo_reached_end" when the side is Buffalo; when
\* it reports none and the side then to move has a legal move, the record
\* carries no winner and game_over false.
C24_RecordCarriesWinner ==
    MoveApplied =>
        LET rec == last.returned[1]
            side == check_for_winner(pieces, current_player)[1]
        IN  /\ side # None =>
                /\ rec.game_over /\ game.game_over
                /\ rec.winner = side
                /\ game.winner = << side >>
                /\ side = Player_BUFFALO =>
                        /\ rec.game_over_reason = "buffalo_reached_end"
                        /\ game.game_over_reason = "buffalo_reached_end"
            /\ (side = None /\ legal_moves(pieces, current_player) # << >>) =>
                /\ rec.winner = None
                /\ ~rec.game_over

\* The side to move in the state st of a game g has a controller.
HasController(g, st) ==
    IF st.current_player = Player_BUFFALO
    THEN g.buffalo_controller # None
    ELSE g.hunter_controller # None

\* The last call was step() on an ongoing game whose side to move had no
\* legal move, or had a controller that returned no move.
NoMoveTurn ==
    /\ last.op = "step"
    /\ ~last.before.game.game_over
    /\ \/ legal_moves(last.before.pieces, last.before.current_player) = << >>
       \/ HasController(last.before.game, last.before) /\ last.args = << >>

\* What a no-move turn leaves: one more record, with no piece kind, no
\* squares and no capture, the same text as board_before and board_after,
\* move_made false and reason "no_moves"; the game over; the board and both
\* move counters as they were.
NoMoveRecorded ==
    /\ last.error = None
    /\ Len(last.returned) = 1
    /\ game.history = Append(last.before.game.history, last.returned[1])
    /\ LET rec == last.returned[1]
       IN  /\ rec.piece_type = None
           /\ rec.from_pos = None /\ rec.to_pos = None
           /\ rec.captured_piece = None
           /\ rec.board_before = rec.board_after
           /\ rec.board_before = serialize(pieces)
           /\ rec.move_made = FALSE
           /\ rec.game_over_reason = "no_moves"
    /\ game.game_over
    /\ pieces = last.before.pieces
    /\ current_player = last.before.current_player
    /\ move_number = last.before.move_number
    /\ game.move_number = last.before.game.move_number

\* C25 as stated: every no-move turn of step() is recorded as above.
C25_NoMoveTurnAsStated == NoMoveTurn => NoMoveRecorded

\* C25: a no-move turn of step() is recorded as above when the side to move
\* has a controller; without one step() returns None before it looks for
\* legal moves, and records nothing.
C25_NoMoveTurnRecorded ==
    /\ (NoMoveTurn /\ HasController(last.before.game, last.before))
            => NoMoveRecorded
    /\ (NoMoveTurn /\ ~HasController(last.before.game, last.before))
            => /\ last.returned = << >> /\ last.error = None
               /\ game = last.before.game

C25_Witness ==
    /\ NoMoveTurn /\ HasController(last.before.game, last.before)
    /\ legal_moves(pieces, current_player) # << >>
    /\ current_player = Player_HUNTERS
    /\ last.returned[1].legal_moves > 1
    /\ game.game_over_reason = "no_moves"

\* The last call was step() on an ongoing game whose controller returned a
\* move that legal_moves() did not hold.
IllegalChoice ==
    /\ last.op = "step"
    /\ ~last.before.game.game_over
    /\ last.args # << >>
    /\ \A m \in Range(legal_moves(last.before.pieces, last.before.current_player)) :
            m.start # last.args[1].start \/ m.end # last.args[1].end

\* C26: when the controller returns a move that is not legal, step() raises
\* the error of the move application and returns nothing, and the board, the
\* history and the counters stay as they were.
C26_IllegalChoiceRaises ==
    IllegalChoice =>
        /\ last.error # None
        /\ last.returned = << >>
        /\ pieces = last.before.pieces
        /\ current_player = last.before.current_player
        /\ move_number = last.before.move_number
        /\ game = last.before.game

\* C27: move_piece(from, to) succeeds exactly when legal_moves(), called on
\* the board as it was before the call, holds a move from `from` to `to`.
C27_ApplicationAgreesWithEnumeration ==
    last.op = "move_piece" =>
        ( last.error = None <=>
            \E m \in Range(legal_moves(last.before.pieces,
                                       last.before.current_player)) :
                m.start = last.from /\ m.end = last.to )

C27_Witness ==
    /\ last.op = "move_piece"
    /\ last.error = "ValueError: Invalid move"
    /\ MoverBefore.type = PieceType_DOG
    /\ \E m \in Range(legal_moves(pieces, current_player)) :
            m.start = last.from

\* C28: a move_piece call that raises (no piece on the start square, a piece
\* of the side not to move, or an illegal destination) leaves the placement,
\* the side to move and the move number as they were before the call.
C28_FailedMoveChangesNothing ==
    (last.op = "move_piece" /\ last.error # None) =>
        /\ pieces = last.before.pieces
        /\ current_player = last.before.current_player
        /\ move_number = last.before.move_number

C28_Witness ==
    /\ last.op = "move_piece"
    /\ last.error = "ValueError: Piece does not belong to current player"
    /\ move_number = 1
    /\ pieces = last.before.pieces
    /\ Len(pieces) > 1

\* Rows the Buffalo on the board have advanced from the top row, and rows they
\* can still advance before one of them stands on row height - 1.
RECURSIVE BuffaloAdvances(_)
BuffaloAdvances(ps) ==
    IF ps = << >> THEN 0
    ELSE (IF Head(ps).piece.player = Player_BUFFALO THEN Head(ps).pos[2] ELSE 0)
         + BuffaloAdvances(Tail(ps))

RECURSIVE AdvancesLeft(_)
AdvancesLeft(ps) ==
    IF ps = << >> THEN 0
    ELSE (IF Head(ps).piece.player = Player_BUFFALO
          THEN (height - 2) - Head(ps).pos[2] ELSE 0)
         + AdvancesLeft(Tail(ps))

NoWinnerBefore ==
    check_for_winner(last.before.pieces, last.before.current_player)
        = <<None, None>>

MaxBuffaloMoves == width * (height - 2) + 1
MaxAppliedMoves == 2 * MaxBuffaloMoves - 1

OwnersMatch(ps) ==
    \A i \in DOMAIN ps : ps[i].piece.player = OwnerOf(ps[i].piece.type)

\* C30: on boards whose owners match the kinds, move_piece never returns
\* BUFFALO_EXTINCT: a Buffalo move returns (Buffalo, BUFFALO_CROSSED) or no
\* winner, a Hunters move that captures the last Buffalo returns (Hunters,
\* BUFFALO_STUCK), and check_for_winner called on its own answers
\* BUFFALO_EXTINCT exactly when the Hunters are to move and no Buffalo is left.
C30_ExtinctOnlyStandalone ==
    /\ (Moved /\ OwnersMatch(last.before.pieces)) =>
            /\ last.reason # BUFFALO_EXTINCT
            /\ MoverBefore.player = Player_BUFFALO =>
                    <<last.winner, last.reason>>
                        \in {<<Player_BUFFALO, BUFFALO_CROSSED>>, <<None, None>>}
            /\ (/\ MoverBefore.player = Player_HUNTERS
                /\ last.captured = PieceType_BUFFALO
                /\ ~any_buffalo_remaining(pieces)) =>
                    <<last.winner, last.reason>>
                        = <<Player_HUNTERS, BUFFALO_STUCK>>
    /\ (last.op = "check_for_winner" /\ OwnersMatch(pieces)) =>
            ((last.reason = BUFFALO_EXTINCT)
                <=> (/\ current_player = Player_HUNTERS
                     /\ ~any_buffalo_remaining(pieces)))

\* The Chief takes the only Buffalo on the board.
C30_Witness ==
    /\ Moved
    /\ OwnersMatch(last.before.pieces)
    /\ MoverBefore.type = PieceType_CHIEF
    /\ last.captured = PieceType_BUFFALO
    /\ ~any_buffalo_remaining(pieces)
    /\ last.reason = BUFFALO_STUCK

\* Pieces of one kind on a board, and the Hunters' rows.
CountOf(ps, type) == Cardinality({i \in DOMAIN ps : ps[i].piece.type = type})
HuntersRows == 1..(height - 2)
NoWinnerNow == check_for_winner(pieces, current_player) = <<None, None>>

C32_OnlyChiefCaptures ==
    /\ FromInitialBoard =>
            /\ CountOf(pieces, PieceType_DOG) = 4
            /\ CountOf(pieces, PieceType_CHIEF) = 1
    /\ (Moved /\ OwnersMatch(last.before.pieces)) =>
            /\ CountOf(pieces, PieceType_DOG)
                    = CountOf(last.before.pieces, PieceType_DOG)
            /\ CountOf(pieces, PieceType_CHIEF)
                    = CountOf(last.before.pieces, PieceType_CHIEF)
            /\ last.captured \in {None, PieceType_BUFFALO}
            /\ last.captured = PieceType_BUFFALO =>
                    /\ MoverBefore.type = PieceType_CHIEF
                    /\ PieceOn(last.before.pieces, last.to).type = PieceType_BUFFALO
                    /\ Len(pieces) = Len(last.before.pieces) - 1
                    /\ CountOf(pieces, PieceType_BUFFALO)
                            = CountOf(last.before.pieces, PieceType_BUFFALO) - 1
            /\ last.captured = None =>
                    /\ Empty(last.before.pieces, last.to)
                    /\ Len(pieces) = Len(last.before.pieces)

\* The Chief takes a Buffalo and one piece is left.
C32_Witness ==
    /\ Moved
    /\ MoverBefore.type = PieceType_CHIEF
    /\ last.captured = PieceType_BUFFALO
    /\ Len(last.before.pieces) = 2
    /\ Len(pieces) = 1
    /\ CountOf(pieces, PieceType_CHIEF) = 1

\* Every Dog and Chief stands on rows 1 to height - 2.
HuntersInside(ps) ==
    \A i \in DOMAIN ps :
        ps[i].piece.type # PieceType_BUFFALO => ps[i].pos[2] \in HuntersRows

BuffaloSquares(ps) ==
    {ps[i].pos : i \in {j \in DOMAIN ps : ps[j].piece.type = PieceType_BUFFALO}}
OneBuffaloPerColumn(ps) ==
    \A a, b \in BuffaloSquares(ps) : a[1] = b[1] => a = b

\* C34: on boards reached from the initial one each column holds at most one
\* Buffalo, and a move keeps it so; across a move every Buffalo on the board
\* was in the same column before, on the same row or, if it is the piece that
\* moved, one row back; and the number of Buffalo does not grow.
C34_BuffaloKeepTheirColumns ==
    /\ FromInitialBoard => OneBuffaloPerColumn(pieces)
    /\ Moved =>
            /\ OneBuffaloPerColumn(last.before.pieces)
                    => OneBuffaloPerColumn(pieces)
            /\ \A sq \in BuffaloSquares(pieces) :
                    \/ sq \in BuffaloSquares(last.before.pieces) /\ sq # last.to
                    \/ /\ sq = last.to
                       /\ last.from \in BuffaloSquares(last.before.pieces)
                       /\ last.from[1] = sq[1]
                       /\ last.from[2] <= sq[2]
            /\ CountOf(pieces, PieceType_BUFFALO)
                    <= CountOf(last.before.pieces, PieceType_BUFFALO)

\* The second Buffalo of the initial board steps forward in its column.
C34_Witness ==
    /\ Moved
    /\ FromInitialBoard
    /\ last.from = <<9, 0>>
    /\ last.to = <<9, 1>>
    /\ CountOf(pieces, PieceType_BUFFALO) = width

\* C35: the assertion that opens _is_valid_move never fails in a call made
\* from legal_moves(), move_piece() or check_for_winner(): none of them ends
\* with AssertionError, every piece legal_moves() hands to the predicate is
\* the mover's, and so is the piece of every move it returns and of every move
\* move_piece applies.
C35_AssertionNeverFails ==
    /\ last.op \in {"legal_moves", "check_for_winner", "move_piece"}
            => last.error # "AssertionError"
    /\ \A i \in DOMAIN legal_moves_probes(pieces, current_player) :
            assert_current_player(
                legal_moves_probes(pieces, current_player)[i].piece,
                current_player)
    /\ last.op = "legal_moves" =>
            \A i \in DOMAIN last.moves :
                assert_current_player(last.moves[i].piece, current_player)
    /\ Moved => assert_current_player(MoverBefore, last.before.current_player)

\* legal_moves() returned moves on a board that holds a piece of each side.
C35_Witness ==
    /\ last.op = "legal_moves"
    /\ last.error = None
    /\ last.moves # << >>
    /\ \E i, j \in DOMAIN pieces :
            /\ pieces[i].piece.player = current_player
            /\ pieces[j].piece.player # current_player
    /\ Len(pieces) = 2

\* Board.deserialize accepts the text and serialize() gives it back.
CanonicalText(t) ==
    \E r \in {deserialize(t)} :
        /\ r.error = None
        /\ serialize(r.board.pieces) = t

\* C36: serialize_board(board) of the game module and board.serialize() return
\* the same text on every board, and the board_before and board_after of
\* every record step() or apply_move() returns are canonical board texts,
\* board_before that of the board the call was made on: accepted by
\* Board.deserialize, and returned again by serialize() of the board read.
C36_GameTextsAreBoardTexts ==
    /\ serialize_board(pieces) = serialize(pieces)
    /\ (GameCalled /\ last.returned # << >>) =>
            /\ last.returned[1].board_before = serialize(last.before.pieces)
            /\ CanonicalText(last.returned[1].board_before)
            /\ CanonicalText(last.returned[1].board_after)

\* A record of an applied move on a board of two pieces.
C36_Witness ==
    /\ game.history # << >>
    /\ LastRecord.move_made
    /\ LastRecord.board_before = serialize_board(last.before.pieces)
    /\ LastRecord.board_after = serialize(pieces)
    /\ LastRecord.board_before # LastRecord.board_after
    /\ Len(pieces) = 2

\* Records of applied moves among the first n of a history.
MovesMade(history, n) ==
    Cardinality({j \in 1..n : history[j].move_made})

\* C37: for a game on a fresh board driven through step() and apply_move(),
\* the game's move number equals the board's and the number of records with
\* move_made true; those records carry the numbers 1, 2, 3, ... in history
\* order; a no-move record carries the number of moves made before it and
\* leaves both counters as they were.
C37_MoveNumbersAgree ==
    /\ game.move_number = move_number
    /\ game.move_number = MovesMade(game.history, Len(game.history))
    /\ \A i \in DOMAIN game.history :
            IF game.history[i].move_made
            THEN game.history[i].move_number = MovesMade(game.history, i)
            ELSE game.history[i].move_number = MovesMade(game.history, i - 1)
    /\ (GameCalled /\ last.returned # << >>) =>
            IF last.returned[1].move_made
            THEN /\ game.move_number = last.before.game.move_number + 1
                 /\ move_number = last.before.move_number + 1
                 /\ last.returned[1].move_number = game.move_number
            ELSE /\ game.move_number = last.before.game.move_number
                 /\ move_number = last.before.move_number
    /\ (GameCalled /\ last.returned = << >>) =>
            /\ game.move_number = last.before.game.move_number
            /\ move_number = last.before.move_number

\* The first move of a game on the initial board has been recorded.
C37_Witness ==
    /\ MoveApplied
    /\ Len(pieces) = Len(initialize_board)
    /\ game.move_number = 1
    /\ move_number = 1
    /\ LastRecord.move_number = 1
    /\ last.before.game.move_number = 0

\* C38: Board.from_pieces(pieces, side) returns a board whose placement equals
\* the mapping passed, whose side to move is `side` and whose move number is 0,
\* with no piece of the initial setup that the mapping does not hold; and no
\* call made on the board afterwards changes the mapping the caller passed.
C38_FromPiecesCopies ==
    /\ (last.op = "from_pieces" =>
            /\ mapping.given
            /\ pieces = mapping.items
            /\ Keys(pieces) = Keys(mapping.items)
            /\ current_player = mapping.side
            /\ move_number = 0)
    /\ [](mapping.given /\ move_number = 1 /\ Moved
            => last.before.pieces = mapping.items)
    /\ [][mapping' = mapping]_vars

\* A board built from a mapping of two pieces has moved away from it.
C38_Witness ==
    /\ mapping.given
    /\ Moved
    /\ move_number = 2
    /\ Len(mapping.items) = 2
    /\ pieces # mapping.items
    /\ current_player = mapping.side

\* What move_piece(..., with_record=True) gives on the board the last call
\* was made on.
WithRecord ==
    move_piece(last.before.pieces, last.before.current_player,
               last.before.move_number, last.from[1], last.from[2],
               last.to[1], last.to[2], TRUE)

\* C39: the MoveRecord that move_piece(..., with_record=True) returns carries
\* the board's move number after the move, the side that moved, the placement
\* just before the move as pieces_before and the placement just after it as
\* pieces_after; no later call on the board changes a record handed out; and
\* with_record=False leaves the same board and returns the same captured
\* piece, winner and reason, with no record.
C39_MoveRecordSnapshots ==
    /\ [](Moved /\ last.with_record =>
            /\ Len(last.record) = 1
            /\ last.record[1].move_number = move_number
            /\ last.record[1].player = last.before.current_player
            /\ last.record[1].player = MoverBefore.player
            /\ last.record[1].pieces_before = last.before.pieces
            /\ last.record[1].pieces_after = pieces)
    /\ [](Moved /\ ~last.with_record =>
            /\ last.record = << >>
            /\ WithRecord.error = None
            /\ pieces = WithRecord.pieces
            /\ current_player = WithRecord.current_player
            /\ move_number = WithRecord.move_number
            /\ last.captured = WithRecord.captured
            /\ last.winner = WithRecord.winner
            /\ last.reason = WithRecord.reason)
    /\ [](held # << >> /\ held[1].record.move_number = move_number
            => held[1].record.pieces_after = pieces)
    /\ [][held # << >> => held' = held]_vars

\* A second move has been made on a board whose first move was recorded.
C39_Witness ==
    /\ held # << >>
    /\ Moved
    /\ move_number = 2
    /\ held[1].record.move_number = 1
    /\ held[1].record.pieces_after = last.before.pieces
    /\ held[1].record.pieces_after # pieces
    /\ held[1].record.pieces_before # last.before.pieces

\* C40: compute_reward(board, player) returns 0.0 when check_for_winner
\* reports no winner on the board, 1.0 when the winner it reports is `player`
\* and -1.0 when it is the other side.
C40_RewardFollowsWinner ==
    last.op = "compute_reward" =>
        LET side == check_for_winner(pieces, current_player)[1]
        IN  last.reward = IF side = None THEN 0
                          ELSE IF side = last.player THEN 1 ELSE 0 - 1

====
